---- MODULE Spec2Model ----
(***************************************************************************)
(* Model of src/main.c: a one-pass video transcoder that draws a progress  *)
(* bar on every decoded frame (add_progress_bar) and re-encodes it (main). *)
(* The libav* calls are the environment: each call's result is a           *)
(* nondeterministic choice among the results the call can return.          *)
(***************************************************************************)
EXTENDS Integers, Sequences, FiniteSets, TLC

\* ------------------------------------------------------------- bounds
\* Packets the demuxer can deliver before it reports end of input.
MaxPackets == 3
\* Most frames one decoder submission can make available.
MaxFramesPerPacket == 2
\* Frames the decoder can yield in a whole run.
MaxFrames == 3
\* Largest presentation timestamp drawn for the pure rescale checks.
MaxPts == 60

\* ------------------------------------------------------------- C int
INT_MAX == 2147483647
Half32 == 256 * 256

Abs(x) == IF x < 0 THEN -x ELSE x

\* C integer division: the quotient truncated toward zero (b # 0).
CDiv(a, b) ==
    IF (a >= 0) = (b > 0) THEN Abs(a) \div Abs(b) ELSE -(Abs(a) \div Abs(b))

\* A 32-bit pattern as <<high 16 bits, low 16 bits>>.
ToPair(x) == <<x \div Half32, x % Half32>>

AddPair(p, q) ==
    LET lo == p[2] + q[2]
        hi == p[1] + q[1] + (lo \div Half32)
    IN  <<hi % Half32, lo % Half32>>

RECURSIVE MulPair(_, _)
MulPair(p, b) ==
    IF b = 0 THEN <<0, 0>>
    ELSE LET h == MulPair(p, b \div 2)
             d == AddPair(h, h)
         IN  IF b % 2 = 1 THEN AddPair(d, p) ELSE d

\* The two's complement value of a 32-bit pattern.
ToSigned(p) ==
    IF p[1] >= Half32 \div 2 THEN (p[1] - Half32) * Half32 + p[2]
    ELSE p[1] * Half32 + p[2]

\* a * b on int for a, b >= 0: the exact product when it fits; on signed
\* overflow (undefined) the builds either wrap to 32 bits or trap.
\* An outcome is [trap |-> BOOLEAN, val |-> Int].
IntMul(a, b) ==
    IF a > 0 /\ b > INT_MAX \div a
    THEN {[trap |-> TRUE, val |-> 0],
          [trap |-> FALSE, val |-> ToSigned(MulPair(ToPair(a), b))]}
    ELSE {[trap |-> FALSE, val |-> a * b]}

\* a / b on int: division by zero (undefined) traps (x86 SIGFPE) or yields
\* 0 (the AArch64 sdiv result).
IntDiv(a, b) ==
    IF b = 0
    THEN {[trap |-> TRUE, val |-> 0], [trap |-> FALSE, val |-> 0]}
    ELSE {[trap |-> FALSE, val |-> CDiv(a, b)]}

\* ------------------------------------------------ add_progress_bar (9-21)
bar_height == 10

\* int bar_width = (frame->width * frame_number) / total_frames;
BarWidthOutcomes(width, frame_number, total) ==
    UNION { IF p.trap THEN {p} ELSE IntDiv(p.val, total) :
            p \in IntMul(width, frame_number) }

\* The bytes the two loops store to, as <<row i, byte offset j*3+c in the row>>:
\* the store goes to data[0][i * linesize + j * 3 + c].
BarStores(height, bw) ==
    LET y == height - bar_height
    IN  { <<i, j * 3 + c>> : i \in y .. (y + bar_height - 1),
                              j \in 0 .. (bw - 1), c \in 0 .. 2 }

\* The value stored at byte c of a pixel: 255, 0, 0.
BarByte(c) == IF c = 0 THEN 255 ELSE 0

\* A store outside the allocation data[0][0 .. height*linesize-1].
OutsideBuffer(f, st) ==
    LET at == st[1] * f.linesize + st[2]
    IN  at < 0 \/ at >= f.height * f.linesize

\* The outcomes of add_progress_bar(frame, frame_number, total_frames):
\* [trap, bar_width, stores]. A store outside the buffer is undefined: the
\* process faults or carries on.
add_progress_bar(f, frame_number, total) ==
    UNION { IF w.trap THEN {[trap |-> TRUE, bar_width |-> 0, stores |-> {}]}
            ELSE LET st == BarStores(f.height, w.val)
                     done == [trap |-> FALSE, bar_width |-> w.val, stores |-> st]
                 IN  IF \E x \in st : OutsideBuffer(f, x)
                     THEN {done, [done EXCEPT !.trap = TRUE]}
                     ELSE {done} :
            w \in BarWidthOutcomes(f.width, frame_number, total) }

\* ------------------------------------------------ timestamps (113,149,163)
\* encoder_context->time_base = (AVRational){1, 30};
EncTimeBase == <<1, 30>>

\* av_rescale_q(a, bq, cq): a * bq / cq rounded to nearest, halves away from
\* zero (AV_ROUND_NEAR_INF); time bases are positive rationals <<num, den>>.
av_rescale_q(a, bq, cq) ==
    LET b == bq[1] * cq[2]
        c == cq[1] * bq[2]
        r(x) == (x * b + (c \div 2)) \div c
    IN  IF a < 0 THEN -r(-a) ELSE r(a)

\* av_packet_rescale_ts(pkt, src, dst): pts and dts are rescaled.
av_packet_rescale_ts(pkt, src, dst) ==
    [pkt EXCEPT !.pts = av_rescale_q(pkt.pts, src, dst),
                !.dts = av_rescale_q(pkt.dts, src, dst)]

\* ------------------------------------------------ the environment
\* What avformat_find_stream_info can discover: the stream types in order and,
\* for the video stream, nb_frames, the time base and the frame geometry.
StreamLayouts == {<<"audio", "video">>, <<"audio">>}
NbFrames == {-1, 0, 1, 2}
TimeBases == {<<1, 30>>, <<1, 1000>>}
FrameDims == {[width |-> 2, height |-> 12, linesize |-> 8]}

StreamInfos ==
    [streams : StreamLayouts, nb_frames : NbFrames, time_base : TimeBases,
     dims : FrameDims]

NoStreamInfo ==
    [streams |-> <<>>, nb_frames |-> 0, time_base |-> <<1, 1>>,
     dims |-> [width |-> 0, height |-> 0, linesize |-> 0]]

\* Presentation timestamp of the k-th decoded frame (0-based) of a 30 fps
\* stream, in units of the time base tb.
FramePts(k, tb) == (k * tb[2]) \div (30 * tb[1])

NoFrame ==
    [width |-> 0, height |-> 0, linesize |-> 0, pts |-> 0, src_pts |-> 0,
     stores |-> {}]

NoPacket == [live |-> FALSE, stream_index |-> 0]
NoOutPacket ==
    [live |-> FALSE, stream_index |-> 0, pts |-> 0, dts |-> 0, src_pts |-> 0]

\* ------------------------------------------------ state
VARIABLES
    pc,             \* the statement of main about to run
    status,         \* "running", "exit0", "exit1" or "signal" (killed by a fault)
    setup_step,     \* index in SetupCalls of the setup call about to run
    attempted,      \* index of the last setup call made
    failed_step,    \* index of the setup call that failed, 0 when none has
    decoder_context,\* "null" or "ok": result of avcodec_alloc_context3(decoder)
    in_stream,      \* what the demuxer found out about the input
    video_stream_index,
    out_time_base,  \* out_stream->time_base, set by avformat_write_header
    packet,         \* AVPacket packet
    inRel,          \* per packet read, in order: the av_packet_unref calls on it
    decPending,     \* frames the decoder can yield before it wants more input
    framesYielded,  \* frames avcodec_receive_frame has delivered
    frame,          \* AVFrame *frame
    frame_count,
    total_frames,
    bar_width,      \* bar_width of the last add_progress_bar call
    encQueue,       \* frames the encoder holds, oldest first
    out_packet,     \* AVPacket out_packet
    outRel,         \* per encoder packet, in order: the av_packet_unref calls on it
    sendPacketCalls,\* avcodec_send_packet calls
    sendFrameCalls, \* avcodec_send_frame calls
    framesSent,     \* avcodec_send_frame calls that succeeded
    writeCalls,     \* av_interleaved_write_frame calls
    packetsWritten, \* av_interleaved_write_frame calls that succeeded
    trailerCalls,   \* av_write_trailer calls
    decodeFailed,   \* avcodec_send_packet has failed
    encFailed,      \* avcodec_send_frame failed on the packet last read
    fcAtRead        \* frame_count when the packet last read was obtained

vars ==
    <<pc, status, setup_step, attempted, failed_step, decoder_context, in_stream,
      video_stream_index, out_time_base, packet, inRel, decPending,
      framesYielded, frame, frame_count, total_frames, bar_width, encQueue,
      out_packet, outRel, sendPacketCalls, sendFrameCalls, framesSent,
      writeCalls, packetsWritten, trailerCalls, decodeFailed, encFailed,
      fcAtRead>>

setupVars ==
    <<setup_step, attempted, failed_step, decoder_context, in_stream,
      video_stream_index, out_time_base>>
demuxVars == <<packet, inRel, fcAtRead>>
decVars == <<decPending, framesYielded, sendPacketCalls, decodeFailed>>
barVars == <<frame_count, total_frames, bar_width>>
encVars == <<encQueue, sendFrameCalls, framesSent, encFailed>>
muxVars == <<out_packet, outRel, writeCalls, packetsWritten, trailerCalls>>

\* The variables no pure-function check starts from another value of.
InitOther ==
    /\ status = "running"
    /\ setup_step = 1
    /\ attempted = 0
    /\ failed_step = 0
    /\ decoder_context = "null"
    /\ video_stream_index = -1
    /\ packet = NoPacket
    /\ inRel = <<>>
    /\ decPending = 0
    /\ framesYielded = 0
    /\ bar_width = 0
    /\ encQueue = <<>>
    /\ out_packet = NoOutPacket
    /\ outRel = <<>>
    /\ sendPacketCalls = 0
    /\ sendFrameCalls = 0
    /\ framesSent = 0
    /\ writeCalls = 0
    /\ packetsWritten = 0
    /\ trailerCalls = 0
    /\ decodeFailed = FALSE
    /\ encFailed = FALSE
    /\ fcAtRead = 0

\* The process at the first statement of main.
Init ==
    /\ pc = "setup"
    /\ in_stream = NoStreamInfo
    /\ out_time_base = <<1, 1>>
    /\ frame = NoFrame
    /\ frame_count = 0
    /\ total_frames = 0
    /\ InitOther

\* ------------------------------------------------ setup (main, 24-136)
\* The setup calls of main in program order.
SetupCalls ==
    << "argc", "avformat_open_input", "avformat_find_stream_info",
       "find_video_stream", "avcodec_find_decoder",
       "avcodec_alloc_context3(decoder)",
       "avcodec_parameters_to_context(decoder_context)",
       "avcodec_open2(decoder_context)", "avformat_alloc_output_context2",
       "avformat_new_stream", "avcodec_parameters_copy",
       "avcodec_find_encoder", "avcodec_alloc_context3(encoder)",
       "avcodec_parameters_to_context(encoder_context)",
       "avcodec_open2(encoder_context)", "avio_open",
       "avformat_write_header" >>

\* The calls whose only effect here is to succeed or fail.
PlainCalls ==
    {"argc", "avformat_open_input", "avcodec_find_decoder",
     "avcodec_open2(decoder_context)", "avformat_alloc_output_context2",
     "avformat_new_stream", "avcodec_parameters_copy", "avcodec_find_encoder",
     "avcodec_alloc_context3(encoder)",
     "avcodec_parameters_to_context(encoder_context)",
     "avcodec_open2(encoder_context)"}

AtSetup(call) ==
    /\ status = "running"
    /\ pc = "setup"
    /\ SetupCalls[setup_step] = call

\* The call returned success and main goes on to the next statement.
SetupNext ==
    /\ setup_step' = setup_step + 1
    /\ attempted' = setup_step
    /\ UNCHANGED <<pc, status, failed_step>>

\* The failure is reported and main carries on.
SetupFail_Ignored ==
    /\ failed_step' = setup_step
    /\ attempted' = setup_step
    /\ setup_step' = setup_step + 1
    /\ UNCHANGED <<pc, status>>

\* fprintf(stderr, ...); exit(1);
SetupFail ==
    /\ failed_step' = setup_step
    /\ attempted' = setup_step
    /\ status' = "exit1"
    /\ pc' = "exited"
    /\ UNCHANGED setup_step

loopVars ==
    <<demuxVars, decVars, frame, barVars, encVars, muxVars>>

PlainSetupCall ==
    /\ \E call \in PlainCalls : AtSetup(call)
    /\ \/ SetupNext
       \/ SetupFail
    /\ UNCHANGED <<decoder_context, in_stream, video_stream_index,
                   out_time_base, loopVars>>

\* 40-43: on success the stream information is known.
FindStreamInfo ==
    /\ AtSetup("avformat_find_stream_info")
    /\ \/ /\ SetupNext
          /\ in_stream' \in StreamInfos
       \/ /\ SetupFail
          /\ UNCHANGED in_stream
    /\ UNCHANGED <<decoder_context, video_stream_index, out_time_base,
                   loopVars>>

\* 47-53: index of the first video stream, -1 when there is none.
FirstVideo(streams) ==
    IF \E i \in 1 .. Len(streams) : streams[i] = "video"
    THEN (CHOOSE i \in 1 .. Len(streams) :
              /\ streams[i] = "video"
              /\ \A k \in 1 .. (i - 1) : streams[k] # "video") - 1
    ELSE -1

\* 47-58
FindVideoStream ==
    /\ AtSetup("find_video_stream")
    /\ video_stream_index' = FirstVideo(in_stream.streams)
    /\ IF video_stream_index' = -1 THEN SetupFail ELSE SetupNext
    /\ UNCHANGED <<decoder_context, in_stream, out_time_base, loopVars>>

\* 67: the result is not checked.
AllocDecoderContext ==
    /\ AtSetup("avcodec_alloc_context3(decoder)")
    /\ decoder_context' \in {"ok", "null"}
    /\ SetupNext
    /\ UNCHANGED <<in_stream, video_stream_index, out_time_base, loopVars>>

\* 68-71: with a null decoder_context the call stores through a null pointer
\* and the process faults.
DecoderParameters ==
    /\ AtSetup("avcodec_parameters_to_context(decoder_context)")
    /\ IF decoder_context = "null"
       THEN /\ status' = "signal"
            /\ attempted' = setup_step
            /\ UNCHANGED <<pc, setup_step, failed_step>>
       ELSE \/ SetupNext
            \/ SetupFail
    /\ UNCHANGED <<decoder_context, in_stream, video_stream_index,
                   out_time_base, loopVars>>

\* 120-125: avio_open is called unless the output format has AVFMT_NOFILE.
AvioOpen ==
    /\ AtSetup("avio_open")
    /\ \/ /\ setup_step' = setup_step + 1
          /\ UNCHANGED <<pc, status, failed_step, attempted>>
       \/ SetupNext
       \/ SetupFail
    /\ UNCHANGED <<decoder_context, in_stream, video_stream_index,
                   out_time_base, loopVars>>

\* 127-136: on success the muxer has set the output stream's time base, and
\* main initialises frame, frame_count and total_frames.
WriteHeader ==
    /\ AtSetup("avformat_write_header")
    /\ \/ /\ attempted' = setup_step
          /\ out_time_base' \in TimeBases
          /\ pc' = "read"
          /\ frame_count' = 0
          /\ total_frames' = in_stream.nb_frames
          /\ UNCHANGED <<status, setup_step, failed_step>>
       \/ /\ SetupFail
          /\ UNCHANGED <<out_time_base, frame_count, total_frames>>
    /\ UNCHANGED <<decoder_context, in_stream, video_stream_index, demuxVars,
                   decVars, frame, bar_width, encVars, muxVars>>

Setup ==
    \/ PlainSetupCall
    \/ FindStreamInfo
    \/ FindVideoStream
    \/ AllocDecoderContext
    \/ DecoderParameters
    \/ AvioOpen
    \/ WriteHeader

\* ------------------------------------------------ transcode loop (138-170)
At(label) == status = "running" /\ pc = label

Released(rel) == [rel EXCEPT ![Len(rel)] = @ + 1]

\* 138: av_read_frame delivers a packet of some stream, or reports the end of
\* the input (or a read error), which ends the while loop.
ReadPacket ==
    /\ At("read")
    /\ \/ /\ Len(inRel) < MaxPackets
          /\ \E si \in 0 .. (Len(in_stream.streams) - 1) :
                 packet' = [live |-> TRUE, stream_index |-> si]
          /\ inRel' = Append(inRel, 0)
          /\ fcAtRead' = frame_count
          /\ pc' = "dispatch"
       \/ /\ pc' = "trailer"
          /\ UNCHANGED <<packet, inRel, fcAtRead>>
    /\ encFailed' = FALSE
    /\ UNCHANGED <<status, setupVars, decVars, frame, barVars, encQueue,
                   sendFrameCalls, framesSent, muxVars>>

\* The stream test is missing: the packet goes to the drain of the decoder.
SkipPacket_Drains ==
    /\ At("dispatch")
    /\ packet.stream_index # video_stream_index
    /\ pc' = "receive_frame"
    /\ UNCHANGED <<status, setupVars, demuxVars, decVars, frame, barVars,
                   encVars, muxVars>>

\* 139: a packet of another stream skips to line 169.
SkipPacket ==
    /\ At("dispatch")
    /\ packet.stream_index # video_stream_index
    /\ pc' = "release"
    /\ UNCHANGED <<status, setupVars, demuxVars, decVars, frame, barVars,
                   encVars, muxVars>>

\* 142: break, in the body of the while of line 138 and of no inner loop:
\* control leaves that while and reaches line 172.
SendPacketFailed ==
    /\ decodeFailed' = TRUE
    /\ pc' = "trailer"
    /\ UNCHANGED decPending

\* 140-143: avcodec_send_packet; an accepted packet makes 0 or more frames
\* available to avcodec_receive_frame.
SendPacket ==
    /\ At("dispatch")
    /\ packet.stream_index = video_stream_index
    /\ sendPacketCalls' = sendPacketCalls + 1
    /\ \/ /\ \E k \in 0 .. MaxFramesPerPacket :
                 /\ framesYielded + decPending + k <= MaxFrames
                 /\ decPending' = decPending + k
          /\ pc' = "receive_frame"
          /\ UNCHANGED decodeFailed
       \/ SendPacketFailed
    /\ UNCHANGED <<status, setupVars, demuxVars, framesYielded, frame, barVars,
                   encVars, muxVars>>

\* 145: avcodec_receive_frame fills the reused frame, or returns < 0 and the
\* inner while ends.
ReceiveFrame ==
    /\ At("receive_frame")
    /\ \/ /\ decPending > 0
          /\ decPending' = decPending - 1
          /\ framesYielded' = framesYielded + 1
          /\ frame' = [width |-> in_stream.dims.width,
                       height |-> in_stream.dims.height,
                       linesize |-> in_stream.dims.linesize,
                       pts |-> FramePts(framesYielded, in_stream.time_base),
                       src_pts |-> FramePts(framesYielded, in_stream.time_base),
                       stores |-> {}]
          /\ pc' = "overlay"
       \/ /\ decPending = 0
          /\ pc' = "release"
          /\ UNCHANGED <<decPending, framesYielded, frame>>
    /\ UNCHANGED <<status, setupVars, demuxVars, sendPacketCalls, decodeFailed,
                   barVars, encVars, muxVars>>

\* The bar is drawn with the count of the frame included.
Overlay_PostIncrement ==
    /\ At("overlay")
    /\ \E o \in add_progress_bar(frame, frame_count + 1, total_frames) :
          /\ bar_width' = o.bar_width
          /\ frame' = [frame EXCEPT !.stores = o.stores]
          /\ IF o.trap
             THEN status' = "signal" /\ UNCHANGED pc
             ELSE pc' = "count" /\ UNCHANGED status
    /\ UNCHANGED <<setupVars, demuxVars, decVars, frame_count, total_frames,
                   encVars, muxVars>>

\* 146: add_progress_bar(frame, frame_count, total_frames)
Overlay ==
    /\ At("overlay")
    /\ \E o \in add_progress_bar(frame, frame_count, total_frames) :
          /\ bar_width' = o.bar_width
          /\ frame' = [frame EXCEPT !.stores = o.stores]
          /\ IF o.trap
             THEN status' = "signal" /\ UNCHANGED pc
             ELSE pc' = "count" /\ UNCHANGED status
    /\ UNCHANGED <<setupVars, demuxVars, decVars, frame_count, total_frames,
                   encVars, muxVars>>

\* Counts a frame only when it is the first of its packet.
CountFrame_OncePerPacket ==
    /\ At("count")
    /\ frame_count' = IF frame_count = fcAtRead THEN frame_count + 1
                      ELSE frame_count
    /\ pc' = "rescale"
    /\ UNCHANGED <<status, setupVars, demuxVars, decVars, frame, total_frames,
                   bar_width, encVars, muxVars>>

\* 147: frame_count++
CountFrame ==
    /\ At("count")
    /\ frame_count' = frame_count + 1
    /\ pc' = "rescale"
    /\ UNCHANGED <<status, setupVars, demuxVars, decVars, frame, total_frames,
                   bar_width, encVars, muxVars>>

\* The two time bases swapped.
RescalePts_Swapped ==
    /\ At("rescale")
    /\ frame' = [frame EXCEPT
                    !.pts = av_rescale_q(@, EncTimeBase, in_stream.time_base)]
    /\ pc' = "send_frame"
    /\ UNCHANGED <<status, setupVars, demuxVars, decVars, barVars, encVars,
                   muxVars>>

\* 149: frame->pts = av_rescale_q(frame->pts, <input stream time base>,
\*                                encoder_context->time_base)
RescalePts ==
    /\ At("rescale")
    /\ frame' = [frame EXCEPT
                    !.pts = av_rescale_q(@, in_stream.time_base, EncTimeBase)]
    /\ pc' = "send_frame"
    /\ UNCHANGED <<status, setupVars, demuxVars, decVars, barVars, encVars,
                   muxVars>>

\* The break leaves the outer while as well.
SendFrameFailed_EndsRun ==
    /\ encFailed' = TRUE
    /\ pc' = "trailer"
    /\ UNCHANGED <<encQueue, framesSent>>

\* A failed submission still polls the encoder for a packet.
SendFrameFailed_Drains ==
    /\ encFailed' = TRUE
    /\ pc' = "receive_packet"
    /\ UNCHANGED <<encQueue, framesSent>>

\* 153: break, in the inner while of line 145: control reaches line 169.
SendFrameFailed ==
    /\ encFailed' = TRUE
    /\ pc' = "release"
    /\ UNCHANGED <<encQueue, framesSent>>

\* 151-154: avcodec_send_frame
SendFrame ==
    /\ At("send_frame")
    /\ sendFrameCalls' = sendFrameCalls + 1
    /\ \/ /\ encQueue' = Append(encQueue,
                                [pts |-> frame.pts, src_pts |-> frame.src_pts])
          /\ framesSent' = framesSent + 1
          /\ pc' = "receive_packet"
          /\ UNCHANGED encFailed
       \/ SendFrameFailed
    /\ UNCHANGED <<status, setupVars, demuxVars, decVars, frame, barVars,
                   muxVars>>

\* 156-161: out_packet is initialised, and avcodec_receive_packet returns 0
\* with the oldest held frame encoded, or nonzero with no packet.
ReceivePacket ==
    /\ At("receive_packet")
    /\ \/ /\ encQueue # <<>>
          /\ out_packet' = [live |-> TRUE, stream_index |-> 0,
                            pts |-> Head(encQueue).pts,
                            dts |-> Head(encQueue).pts,
                            src_pts |-> Head(encQueue).src_pts]
          /\ encQueue' = Tail(encQueue)
          /\ outRel' = Append(outRel, 0)
          /\ pc' = "prepare"
       \/ /\ out_packet' = NoOutPacket
          /\ pc' = "receive_frame"
          /\ UNCHANGED <<encQueue, outRel>>
    /\ UNCHANGED <<status, setupVars, demuxVars, decVars, frame, barVars,
                   sendFrameCalls, framesSent, encFailed, writeCalls,
                   packetsWritten, trailerCalls>>

\* out_stream->index: out_stream is the first stream added to the output (85).
out_stream_index == 0

\* 162-163: out_stream is the only stream of the output, index 0.
PreparePacket ==
    /\ At("prepare")
    /\ out_packet' = av_packet_rescale_ts([out_packet EXCEPT
                                               !.stream_index = out_stream_index],
                                          EncTimeBase, out_time_base)
    /\ pc' = "write"
    /\ UNCHANGED <<status, setupVars, demuxVars, decVars, frame, barVars,
                   encVars, outRel, writeCalls, packetsWritten, trailerCalls>>

\* A failed write leaves the drain loop as a failed submission does.
WriteFrame_BreakOnFailure ==
    /\ At("write")
    /\ writeCalls' = writeCalls + 1
    /\ \/ packetsWritten' = packetsWritten + 1 /\ pc' = "unref_out"
       \/ UNCHANGED packetsWritten /\ pc' = "release"
    /\ UNCHANGED <<status, setupVars, demuxVars, decVars, frame, barVars,
                   encVars, out_packet, outRel, trailerCalls>>

\* 164: av_interleaved_write_frame; its result is not looked at.
WriteFrame ==
    /\ At("write")
    /\ writeCalls' = writeCalls + 1
    /\ \/ packetsWritten' = packetsWritten + 1
       \/ UNCHANGED packetsWritten
    /\ pc' = "unref_out"
    /\ UNCHANGED <<status, setupVars, demuxVars, decVars, frame, barVars,
                   encVars, out_packet, outRel, trailerCalls>>

\* 165: av_packet_unref(&out_packet), then the inner while tests again.
UnrefOutPacket ==
    /\ At("unref_out")
    /\ outRel' = Released(outRel)
    /\ out_packet' = [out_packet EXCEPT !.live = FALSE]
    /\ pc' = "receive_frame"
    /\ UNCHANGED <<status, setupVars, demuxVars, decVars, frame, barVars,
                   encVars, writeCalls, packetsWritten, trailerCalls>>

\* 169: av_packet_unref(&packet), then the while of line 138 tests again.
ReleasePacket ==
    /\ At("release")
    /\ inRel' = Released(inRel)
    /\ packet' = [packet EXCEPT !.live = FALSE]
    /\ pc' = "read"
    /\ UNCHANGED <<status, setupVars, fcAtRead, decVars, frame, barVars,
                   encVars, muxVars>>

\* 172: av_write_trailer
WriteTrailer ==
    /\ At("trailer")
    /\ trailerCalls' = trailerCalls + 1
    /\ pc' = "cleanup"
    /\ UNCHANGED <<status, setupVars, demuxVars, decVars, frame, barVars,
                   encVars, out_packet, outRel, writeCalls, packetsWritten>>

\* 174-182: the contexts and the frame are freed; return 0.
Cleanup ==
    /\ At("cleanup")
    /\ status' = "exit0"
    /\ pc' = "done"
    /\ UNCHANGED <<setupVars, demuxVars, decVars, frame, barVars, encVars,
                   muxVars>>

Next ==
    \/ Setup
    \/ ReadPacket
    \/ SkipPacket
    \/ SendPacket
    \/ ReceiveFrame
    \/ Overlay
    \/ CountFrame
    \/ RescalePts
    \/ SendFrame
    \/ ReceivePacket
    \/ PreparePacket
    \/ WriteFrame
    \/ UnrefOutPacket
    \/ ReleasePacket
    \/ WriteTrailer
    \/ Cleanup

Spec == Init /\ [][Next]_vars

\* ------------------------------------------------ add_progress_bar alone
\* Largest frame_number and total_frames of the small cases.
MaxCount == 4
MaxTotal == 3

SmallFrames ==
    { [width |-> w, height |-> h, linesize |-> 3 * w + pad, pts |-> 0,
       src_pts |-> 0, stores |-> {}] :
      w \in 1 .. 3, h \in {9, 10, 12}, pad \in {0, 2} }

BigFrame(w, h) ==
    [width |-> w, height |-> h, linesize |-> 3 * w, pts |-> 0, src_pts |-> 0,
     stores |-> {}]

\* The calls add_progress_bar(f, n, total) checked: every small frame with
\* every small count and total, the 64x64 scenario of 10 frames, and a wide
\* frame late in a long stream.
BarCalls ==
    [f : SmallFrames, n : 0 .. MaxCount, total : -1 .. MaxTotal]
    \cup [f : {BigFrame(64, 64)}, n : {0, 5, 10}, total : {10}]
    \cup [f : {BigFrame(7680, 4320)}, n : {300000}, total : {400000}]

InitBar ==
    /\ pc = "overlay"
    /\ in_stream = NoStreamInfo
    /\ out_time_base = <<1, 1>>
    /\ \E call \in BarCalls :
          /\ frame = call.f
          /\ frame_count = call.n
          /\ total_frames = call.total
    /\ InitOther

SpecBar == InitBar /\ [][Overlay]_vars

\* ------------------------------------------------ the timestamp chain alone
TsTimeBases == {<<1, 30>>, <<1, 25>>, <<1, 60>>, <<1, 1000>>}

\* A decoded frame with presentation timestamp t at line 149, for every pair
\* of input and output stream time bases.
InitTs ==
    /\ pc = "rescale"
    /\ \E tb \in TsTimeBases : in_stream = [NoStreamInfo EXCEPT !.time_base = tb]
    /\ out_time_base \in TsTimeBases
    /\ \E t \in (-MaxPts) .. MaxPts :
          frame = [NoFrame EXCEPT !.pts = t, !.src_pts = t]
    /\ frame_count = 1
    /\ total_frames = 1
    /\ InitOther

NextTs ==
    \/ RescalePts
    \/ SendFrame
    \/ ReceivePacket
    \/ PreparePacket

SpecTs == InitTs /\ [][NextTs]_vars

\* ------------------------------------------------ claims
\* add_progress_bar has run on the current frame (it returned or faulted).
OverlayDone == pc = "count" \/ (pc = "overlay" /\ status = "signal")

\* <<q, r>> with w * n = q * total + r and 0 <= r < total, for total > 0,
\* computed without forming w * n.
RECURSIVE MulDivMod(_, _, _)
MulDivMod(w, n, total) ==
    IF n = 0 THEN <<0, 0>>
    ELSE LET h == MulDivMod(w, n \div 2, total)
             d == <<2 * h[1] + ((2 * h[2]) \div total), (2 * h[2]) % total>>
         IN  IF n % 2 = 1
             THEN <<d[1] + ((d[2] + w) \div total), (d[2] + w) % total>>
             ELSE d

\* floor(w * n / total) in unbounded arithmetic.
FloorMulDiv(w, n, total) == MulDivMod(w, n, total)[1]

\* C1: when avcodec_send_packet fails on a packet, frame_count is what it was
\* when the packet was read, and control stays in the while loop (it goes to
\* the release of the packet and the next av_read_frame), the run not ended.
C1_DecodeFailureContinuesLoop ==
    [][(~decodeFailed /\ decodeFailed')
          => (frame_count' = fcAtRead' /\ pc' \in {"release", "read"})]_vars

\* C2: every packet read from the demuxer and every packet received from the
\* encoder is unreferenced at most once at any time, and exactly once by the
\* time main returns.
C2_EveryPacketReleasedOnce ==
    /\ \A i \in 1 .. Len(inRel) : inRel[i] <= 1
    /\ \A i \in 1 .. Len(outRel) : outRel[i] <= 1
    /\ pc = "done" =>
          /\ \A i \in 1 .. Len(inRel) : inRel[i] = 1
          /\ \A i \in 1 .. Len(outRel) : outRel[i] = 1

\* C3: frame_count starts at 0, never decreases, and equals the number of
\* frames the decoder has yielded, the frame being rendered (yielded, not yet
\* counted at lines 146-147) excepted.
C3_CounterTracksFrames ==
    /\ [](frame_count =
             framesYielded - (IF pc \in {"overlay", "count"} THEN 1 ELSE 0))
    /\ [][frame_count' = frame_count \/ frame_count' = frame_count + 1]_vars

\* C3 witness: one packet has yielded two frames and both are counted.
C3_Witness ==
    /\ Len(inRel) = 1
    /\ sendPacketCalls = 1
    /\ framesYielded = 2
    /\ frame_count = 2
    /\ pc = "receive_frame"

\* C4: with total_frames <= 0 the overlay never faults and leaves every frame
\* without a bar.
C4_ZeroTotalDrawsNoBar ==
    (pc # "setup" /\ total_frames <= 0)
        => (status # "signal" /\ bar_width <= 0 /\ frame.stores = {})

\* C5: every byte add_progress_bar stores to is at a row in [0, height) and a
\* byte offset in [0, linesize) of that row.
C5_StoresInsideFrame ==
    \A st \in frame.stores :
        /\ 0 <= st[1] /\ st[1] < frame.height
        /\ 0 <= st[2] /\ st[2] < frame.linesize

\* C6: for 0 <= n <= total and total > 0, on a frame of at least 10 rows, the
\* bar is floor(width * n / total) pixels wide, 0 at n = 0 and the frame width
\* at n = total, and it covers exactly the bottom 10 rows of the frame; width
\* 64, total 10, n 5 gives 32.
C6_BarWidthExact ==
    (OverlayDone /\ total_frames > 0 /\ 0 <= frame_count
                 /\ frame_count <= total_frames /\ frame.height >= bar_height)
        => /\ status = "running"
           /\ bar_width = FloorMulDiv(frame.width, frame_count, total_frames)
           /\ frame_count = 0 => bar_width = 0
           /\ frame_count = total_frames => bar_width = frame.width
           /\ (frame.width = 64 /\ total_frames = 10 /\ frame_count = 5)
                  => bar_width = 32
           /\ frame.stores =
                  { <<i, b>> : i \in ((frame.height - 10) .. (frame.height - 1))
                                      \cap (0 .. (frame.height - 1)),
                               b \in 0 .. (3 * bar_width - 1) }
           /\ bar_width > 0 =>
                  Cardinality({st[1] : st \in frame.stores}) = 10

\* C7: when frame_count exceeds total_frames the bar drawn is at most the
\* frame width wide.
C7_BarWidthClamped ==
    (pc = "count" /\ frame_count > total_frames) => bar_width <= frame.width

\* C8: after avcodec_send_frame fails the process is still running and is at
\* the release of the current input packet, not yet released, or past it at
\* the next av_read_frame with that packet released once.
C8_EncodeFailureSkipsToNextPacket ==
    encFailed =>
        /\ status = "running"
        /\ \/ pc = "release" /\ packet.live /\ inRel[Len(inRel)] = 0
           \/ pc = "read" /\ ~packet.live /\ inRel[Len(inRel)] = 1

\* C8 witness: an encoder submission failed and the loop is back at
\* av_read_frame with the packet released.
C8_Witness == encFailed /\ pc = "read" /\ inRel[Len(inRel)] = 1

PtsRescaled(f) ==
    f.pts = av_rescale_q(f.src_pts, in_stream.time_base, EncTimeBase)

\* C11: a frame at avcodec_send_frame carries the bar drawn with the counter
\* value before the increment, is counted, and has its timestamp rescaled to
\* the encoder time base; the frames the encoder holds are rescaled; and
\* whenever the decoder is drained again every counted frame has been
\* submitted to the encoder once (the overlay, count, rescale and submission
\* of a frame are all done before the next frame is received).
C11_FrameStepsInOrder ==
    /\ pc = "send_frame" =>
          /\ frame.stores \in
                 { o.stores : o \in { x \in add_progress_bar(
                                              frame, frame_count - 1, total_frames) :
                                        ~x.trap } }
          /\ frame_count = framesYielded
          /\ sendFrameCalls = frame_count - 1
          /\ PtsRescaled(frame)
    /\ pc = "rescale" => frame.pts = frame.src_pts
    /\ \A i \in 1 .. Len(encQueue) : PtsRescaled(encQueue[i])
    /\ pc \in {"receive_frame", "receive_packet"} =>
          /\ sendFrameCalls = frame_count
          /\ frame_count = framesYielded

\* C11 witness: the second frame of a 1/1000 stream is at avcodec_send_frame
\* with a bar drawn and its timestamp 33 rescaled to 1.
C11_Witness ==
    /\ pc = "send_frame"
    /\ frame.stores # {}
    /\ frame.src_pts = 33
    /\ frame.pts = 1
    /\ frame_count = 2

\* C12: a packet handed to av_interleaved_write_frame carries the output
\* stream's index and timestamps rescaled from the encoder time base to the
\* output stream's; a packet received from the encoder exists only between
\* lines 161 and 165, the write is always followed by its release, and after
\* the release, whether the write succeeded or failed, control is back at the
\* drain of the decoder.
C12_PacketPreparedWrittenReleased ==
    /\ pc \in {"write", "unref_out"} =>
          /\ out_packet.stream_index = out_stream_index
          /\ out_packet.pts =
                 av_rescale_q(av_rescale_q(out_packet.src_pts,
                                           in_stream.time_base, EncTimeBase),
                              EncTimeBase, out_time_base)
          /\ out_packet.dts = out_packet.pts
    /\ out_packet.live <=> pc \in {"prepare", "write", "unref_out"}
    /\ out_packet.live => outRel[Len(outRel)] = 0
    /\ (~out_packet.live /\ outRel # <<>>) => outRel[Len(outRel)] = 1
    /\ writeCalls = Len(outRel) - (IF pc \in {"prepare", "write"} THEN 1 ELSE 0)
    /\ packetsWritten <= writeCalls

\* C12 witness: the only write of the run so far failed, its packet is
\* released and the decoder is drained again.
C12_Witness ==
    /\ writeCalls = 1
    /\ packetsWritten = 0
    /\ outRel = <<1>>
    /\ ~out_packet.live
    /\ pc = "receive_frame"

\* The packet in hand belongs to a stream other than the selected one.
OtherStreamPacket ==
    packet.live /\ packet.stream_index # video_stream_index

\* C13: a packet of a stream other than the selected video stream is only
\* tested and released: while it is in hand control is at line 139 or 169, and
\* no step taken with it in hand submits to the decoder or encoder, writes, or
\* changes frame_count or the frame; its release is the step that ends it.
C13_OtherStreamPacketOnlyReleased ==
    /\ [](OtherStreamPacket => pc \in {"dispatch", "release"})
    /\ [][OtherStreamPacket =>
             /\ UNCHANGED <<sendPacketCalls, sendFrameCalls, framesSent,
                            writeCalls, packetsWritten, trailerCalls,
                            frame_count, frame, framesYielded, decPending,
                            encQueue, outRel>>
             /\ pc' \in {"release", "read"}
             /\ pc' = "read" => (~packet'.live /\ inRel' = Released(inRel))]_vars

\* C13 witness: after a frame was decoded and counted, a packet of another
\* stream has been read and released, and control is at av_read_frame.
C13_Witness ==
    /\ pc = "read"
    /\ ~packet.live
    /\ packet.stream_index # video_stream_index
    /\ Len(inRel) = 2
    /\ inRel[2] = 1
    /\ frame_count = 1
    /\ decPending = 1

\* Setup has succeeded: control has entered the transcode loop or passed it.
PastSetup == pc \notin {"setup", "exited"}

\* C14: after a successful setup the run does not stop before Finalize (it can
\* take a step until main has returned with the trailer written); the trailer
\* is written exactly once, after every packet write; and once the read loop
\* has ended nothing more is submitted to the decoder or encoder or written.
C14_RunReachesFinalize ==
    /\ [](PastSetup => (ENABLED Next \/ (pc = "done" /\ trailerCalls = 1)))
    /\ [](PastSetup =>
             trailerCalls = (IF pc \in {"cleanup", "done"} THEN 1 ELSE 0))
    /\ [][(pc \in {"trailer", "cleanup", "done"}) =>
             /\ UNCHANGED <<sendPacketCalls, sendFrameCalls, writeCalls,
                            packetsWritten, inRel>>
             /\ (pc' \in {"cleanup", "done"})]_vars

\* The bytes of frame f changed by the stores st, as <<row, byte in the row>>
\* of the address row * linesize + offset each store goes to.
ChangedBytes(f, st) ==
    { <<(x[1] * f.linesize + x[2]) \div f.linesize,
        (x[1] * f.linesize + x[2]) % f.linesize>> : x \in st }

\* C15: add_progress_bar changes exactly the bytes of the first bar_width
\* pixels of the bottom 10 rows, to 255, 0, 0 in each pixel; no byte of a row
\* above, no byte right of the bar, no padding byte (at 3 * width or beyond in
\* its row) is changed; and it leaves the frame's width, height, linesize and
\* timestamp as they were.
C15_OnlyBarBytesChange ==
    [][(pc = "overlay") =>
          /\ frame'.width = frame.width
          /\ frame'.height = frame.height
          /\ frame'.linesize = frame.linesize
          /\ frame'.pts = frame.pts
          /\ ChangedBytes(frame, frame'.stores) =
                 { <<r, b>> : r \in (frame.height - 10) .. (frame.height - 1),
                              b \in 0 .. (3 * bar_width' - 1) }
          /\ \A x \in ChangedBytes(frame, frame'.stores) :
                 /\ 0 <= x[1] /\ x[1] < frame.height
                 /\ x[2] < 3 * frame.width
          /\ \A x \in frame'.stores :
                 BarByte(x[2] % 3) =
                     BarByte(((x[1] * frame.linesize + x[2]) % frame.linesize) % 3)]_vars

\* C16: once setup has succeeded the run has no other end than return 0 after
\* the trailer: it never ends by exit(1) or by a signal, whatever submissions
\* or writes failed in the loop, and it has returned 0 exactly when main is
\* done, with the trailer written once.
C16_PostSetupRunExitsZero ==
    PastSetup =>
        /\ status \in {"running", "exit0"}
        /\ (status = "exit0") <=> (pc = "done")
        /\ (pc = "done") => (trailerCalls = 1)

\* C17: at every point of a run, packets written <= frames submitted to the
\* encoder with success <= frame_count; every packet taken from the encoder
\* comes from one successful submission (taken plus held = submitted), the
\* encoder is polled only right after a successful submission, and what the
\* encoder still holds when the loop has ended is never taken nor written.
C17_WritesBoundedBySubmissions ==
    /\ [](/\ packetsWritten <= framesSent
          /\ framesSent <= frame_count)
    /\ [](/\ packetsWritten <= writeCalls
          /\ writeCalls <= Len(outRel)
          /\ Len(outRel) + Len(encQueue) = framesSent)
    /\ [][(pc' = "receive_packet") => (framesSent' = framesSent + 1)]_vars
    /\ [][(Len(outRel') # Len(outRel)) => (pc = "receive_packet")]_vars
    /\ [][(pc \in {"trailer", "cleanup", "done"}) =>
             UNCHANGED <<packetsWritten, writeCalls, encQueue>>]_vars

\* main has returned with packets written and with a frame still held by the
\* encoder, which was never written.
C17_Witness ==
    /\ pc = "done"
    /\ packetsWritten > 0
    /\ encQueue # <<>>
    /\ packetsWritten < framesSent

\* C18: the i-th frame the decoder yields (from 0) is drawn with count i; the
\* first frame is always drawn, with a bar of width 0 and no byte stored; and
\* with total_frames > 0 a frame of count below total_frames is drawn with
\* floor(width * count / total_frames), at most
\* floor(width * (total_frames - 1) / total_frames), below the frame width.
C18_FrameDrawnWithItsIndex ==
    /\ [](pc \in {"overlay", "count"} => frame_count = framesYielded - 1)
    /\ [][(/\ pc = "overlay"
           /\ \/ frame_count = 0
              \/ (total_frames > 0 /\ frame_count < total_frames)) =>
             /\ pc' = "count"
             /\ (frame_count = 0) =>
                    (bar_width' = 0 /\ frame'.stores = {})
             /\ (total_frames > 0 /\ frame_count < total_frames) =>
                    /\ bar_width' =
                           FloorMulDiv(frame.width, frame_count, total_frames)
                    /\ bar_width' <=
                           FloorMulDiv(frame.width, total_frames - 1,
                                       total_frames)
                    /\ bar_width' < frame.width]_vars

====
